---- MODULE Spec2Model ----
(***************************************************************************)
(* A model of gauchoGPT (josh11100/UCSB.Helper): the Streamlit navigation  *)
(* shell of app.py, the housing page of housing_page.py and the academics  *)
(* page of academics.py.                                                   *)
(*                                                                         *)
(* One script run of app.py is one action.  A user interaction stores the  *)
(* widget event and asks for a run; a run that ends in st.rerun() asks for *)
(* another run, in which the button that was clicked reads False again.    *)
(*                                                                         *)
(* Text is a sequence of one-character strings, so that str.strip,         *)
(* str.lower, str.title, substring search and the price parser are         *)
(* computed the way the code computes them.  A cell of a table is a text   *)
(* or NA (an empty CSV cell, a SQL NULL).                                  *)
(***************************************************************************)
EXTENDS Integers, Sequences, FiniteSets, TLC

VARIABLES
    main_nav,           \* st.session_state["main_nav"]
    sidebar_nav_open,   \* st.session_state["sidebar_nav_open"]
    pc,                 \* "idle": waiting for the user; "run": a script run is due
    event,              \* the last widget interaction: [kind, arg]
    fresh,              \* TRUE until a script run has read the event
    navigated,          \* history: a navigation button has been clicked
    display             \* what the last script run put on the screen

nav_vars == <<main_nav, sidebar_nav_open, pc, event, fresh, navigated, display>>

VARIABLES
    housing_csv,        \* the file housing_listings.csv: "missing" or its rows
    hw,                 \* the housing page's widget values
    hout                \* the housing page's last run: df, filtered, cards

housing_vars == <<housing_csv, hw, hout>>

VARIABLES
    courses_src,        \* gauchoGPT.db and major_courses_by_quarter.csv
    aw,                 \* the academics page's widget values
    aout                \* the academics page's last run, tab by tab

academics_vars == <<courses_src, aw, aout>>

VARIABLES
    planned_courses,    \* st.session_state.planned_courses, once it is set
    db_cache            \* the store of @st.cache_data on load_courses_from_db

vars == <<main_nav, sidebar_nav_open, pc, event, fresh, navigated, display,
          housing_csv, hw, hout, courses_src, aw, aout, planned_courses, db_cache>>

----------------------------------------------------------------------------
(* Text helpers *)

\* a missing value (NaN, None, NULL); a tuple, so that it compares with texts
NA == <<"<NA>">>
\* Python's None, as an object column of a query result holds a SQL NULL
NONE == <<"<None>">>

UpperChars == <<"A","B","C","D","E","F","G","H","I","J","K","L","M",
                "N","O","P","Q","R","S","T","U","V","W","X","Y","Z">>
LowerChars == <<"a","b","c","d","e","f","g","h","i","j","k","l","m",
                "n","o","p","q","r","s","t","u","v","w","x","y","z">>
Digits == {"0","1","2","3","4","5","6","7","8","9"}

IndexIn(c, chars) ==
    IF \E i \in 1..Len(chars) : chars[i] = c
    THEN CHOOSE i \in 1..Len(chars) : chars[i] = c
    ELSE 0

IsUpper(c) == IndexIn(c, UpperChars) > 0
IsLower(c) == IndexIn(c, LowerChars) > 0
IsLetter(c) == IsUpper(c) \/ IsLower(c)
IsSpace(c) == c = " "

LowerChar(c) == IF IsUpper(c) THEN LowerChars[IndexIn(c, UpperChars)] ELSE c
UpperChar(c) == IF IsLower(c) THEN UpperChars[IndexIn(c, LowerChars)] ELSE c

\* str.lower()
Lower(s) == [i \in 1..Len(s) |-> LowerChar(s[i])]

\* str.title(): a letter after a non-letter is upper-cased, any other letter lower-cased
Title(s) ==
    [i \in 1..Len(s) |->
        IF i = 1 \/ ~IsLetter(s[i-1]) THEN UpperChar(s[i]) ELSE LowerChar(s[i])]

\* str.strip()
RECURSIVE LStrip(_)
LStrip(s) == IF s # <<>> /\ IsSpace(Head(s)) THEN LStrip(Tail(s)) ELSE s

RECURSIVE RStrip(_)
RStrip(s) ==
    IF s # <<>> /\ IsSpace(s[Len(s)]) THEN RStrip(SubSeq(s, 1, Len(s) - 1)) ELSE s

Strip(s) == RStrip(LStrip(s))

\* Series.astype(str) on one cell: NaN becomes the text "nan", None the text "None"
AsStr(cell) ==
    IF cell = NA THEN <<"n","a","n">>
    ELSE IF cell = NONE THEN <<"N","o","n","e">>
    ELSE cell

\* sub in text (Python's `in`, a literal substring search)
Contains(text, sub) ==
    \E i \in 0..(Len(text) - Len(sub)) :
        \A k \in 1..Len(sub) : text[i + k] = sub[k]

Range(f) == {f[i] : i \in DOMAIN f}

\* the text of a non-negative decimal numeral's digits, as a number
DigitChars == <<"0","1","2","3","4","5","6","7","8","9">>
DigitVal(c) == IndexIn(c, DigitChars) - 1

RECURSIVE DigitsVal(_)
DigitsVal(s) ==
    IF s = <<>> THEN 0 ELSE 10 * DigitsVal(SubSeq(s, 1, Len(s) - 1)) + DigitVal(s[Len(s)])

Max(S) == CHOOSE x \in S : \A y \in S : y <= x

----------------------------------------------------------------------------
(* app.py: the navigation shell *)

\* The page identifiers, without their emoji prefix.
NAV_LABELS == <<"Home", "Housing", "Academics", "Professors", "Aid & Jobs", "Q&A">>

\* The routing table: page identifier |-> page handler.
PAGES ==
    [p \in {"Home", "Housing", "Academics", "Professors", "Aid & Jobs", "Q&A"} |->
        CASE p = "Home"       -> "home_page"
          [] p = "Housing"    -> "housing_page"
          [] p = "Academics"  -> "academics_page"
          [] p = "Professors" -> "profs_page"
          [] p = "Aid & Jobs" -> "aid_jobs_page"
          [] p = "Q&A"        -> "qa_page"]

\* home_page's rows: button text |-> nav_target
HOME_ROWS ==
    [b \in {"Open Housing", "Open Academics", "Open Professors",
            "Open Aid & Jobs", "Open Q&A"} |->
        CASE b = "Open Housing"    -> "Housing"
          [] b = "Open Academics"  -> "Academics"
          [] b = "Open Professors" -> "Professors"
          [] b = "Open Aid & Jobs" -> "Aid & Jobs"
          [] b = "Open Q&A"        -> "Q&A"]

NoEvent == [kind |-> "none", arg |-> "none"]

\* Nothing of a page handler is on the screen.
Blank == [page |-> "none", complete |-> FALSE]

----------------------------------------------------------------------------
(* housing_page.py *)

\* Prices are kept in hundredths, so that 1.5 and int(1.5) are both exact.
PriceScale == 10 * 10

NaN == [kind |-> "nan", val |-> 0]
AnyOpt == <<"A","n","y">>

\* .str.replace(r"[^0-9.]", "", regex=True)
PriceKept(text) ==
    LET Keep(c) == c \in Digits \/ c = "."
    IN SelectSeq(text, Keep)

\* float() of a text of digits and dots: one dot at most and a digit at least,
\* otherwise ValueError.  Fractions have two digits at most in the model.
ToFloat(text) ==
    LET dots == {i \in 1..Len(text) : text[i] = "."}
        dot  == IF dots = {} THEN Len(text) + 1 ELSE CHOOSE i \in dots : TRUE
        ip   == SubSeq(text, 1, dot - 1)
        fp   == SubSeq(text, dot + 1, Len(text))
        frac == IF Len(fp) = 0 THEN 0
                ELSE IF Len(fp) = 1 THEN 10 * DigitsVal(fp)
                ELSE DigitsVal(SubSeq(fp, 1, 2))
    IN IF Cardinality(dots) > 1 \/ Len(text) = Cardinality(dots)
       THEN [kind |-> "error", val |-> 0]
       ELSE [kind |-> "num", val |-> PriceScale * DigitsVal(ip) + frac]

\* df["price_num"]: astype(str), strip, "" -> NA, astype(float)
PriceNum(cell) ==
    LET kept == PriceKept(AsStr(cell))
    IN IF kept = <<>> THEN NaN ELSE ToFloat(kept)

\* lines 41-44: the price column of one row; cols are the file's column names
PriceColumn(cols, raw) ==
    IF "price" \in cols THEN raw.price
    ELSE IF "installment" \in cols THEN raw.installment
    ELSE NONE

\* col_or_empty(name), for one row
ColOrEmpty(cols, raw, name) == IF name \in cols THEN raw[name] ELSE <<>>

\* One row of df after the column normalisation.
NormalizeListing(cols, raw) ==
    [price              |-> PriceColumn(cols, raw),
     price_num          |-> PriceNum(PriceColumn(cols, raw)),
     address            |-> AsStr(ColOrEmpty(cols, raw, "address")),
     beds               |-> AsStr(ColOrEmpty(cols, raw, "beds")),
     status             |-> AsStr(ColOrEmpty(cols, raw, "status")),
     pet_policy         |-> AsStr(ColOrEmpty(cols, raw, "pet_policy")),
     max_residents      |-> AsStr(ColOrEmpty(cols, raw, "max_residents")),
     availability       |-> AsStr(ColOrEmpty(cols, raw, "availability")),
     included_utilities |-> AsStr(ColOrEmpty(cols, raw, "included_utilities")),
     link               |-> AsStr(ColOrEmpty(cols, raw, "link"))]

\* df as it stands before the filters row; astype(float) raises on a bad price
ReadListings(csv) == [i \in 1..Len(csv.rows) |-> NormalizeListing(csv.cols, csv.rows[i])]

PriceRaises(csv) ==
    \E i \in 1..Len(csv.rows) : PriceNum(PriceColumn(csv.cols, csv.rows[i])).kind = "error"

DEFAULT_PRICE_MAX == 20000

\* price_max_default, in hundredths
PriceMaxDefault(df) ==
    LET known == {df[i].price_num.val : i \in {j \in 1..Len(df) : df[j].price_num.kind = "num"}}
    IN IF known # {} THEN Max(known) ELSE DEFAULT_PRICE_MAX * PriceScale

\* int(x) of a non-negative float
IntOf(x) == x \div PriceScale

\* The slider's value: its initial value until the user moves it.
SliderValue(df, w) == IF w.price < 0 THEN IntOf(PriceMaxDefault(df)) ELSE w.price

\* ["Any"] + sorted([v for v in df[col].unique() if v and v != "nan"])
Options(df, col) ==
    {AnyOpt} \cup {df[i][col] : i \in {j \in 1..Len(df) :
                                    df[j][col] # <<>> /\ df[j][col] # <<"n","a","n">>}}

\* the filter without its isna() alternative
PricePassesKnownOnly(row, price_max) ==
    row.price_num.kind = "num" /\ row.price_num.val <= price_max * PriceScale

\* filtered[(filtered["price_num"].isna()) | (filtered["price_num"] <= price_max)]
PricePasses(row, price_max) ==
    row.price_num.kind = "nan" \/ row.price_num.val <= price_max * PriceScale

FilterPrice(filtered, price_max) ==
    LET Keep(row) == PricePasses(row, price_max)
    IN IF \E i \in 1..Len(filtered) : filtered[i].price_num.kind = "num"
       THEN SelectSeq(filtered, Keep)
       ELSE filtered

\* filtered[filtered[col] == sel]
CellMatches(cell, sel) == cell = sel

FilterColumn(filtered, col, sel) ==
    LET Keep(row) == CellMatches(row[col], sel)
    IN IF sel # AnyOpt THEN SelectSeq(filtered, Keep) ELSE filtered

\* the status and the pet filter taken from df instead of from filtered
ApplyFiltersFromDf(df, price_max, w) ==
    LET f1 == FilterPrice(df, price_max)
        f2 == FilterColumn(f1, "beds", w.beds)
        f3 == FilterColumn(df, "status", w.status)
        f4 == FilterColumn(f3, "pet_policy", w.pet)
    IN [df |-> df, filtered |-> f4]

\* filtered = df.copy(), then the four filters one after the other.  The pair
\* is (df, filtered) as the two objects stand after line 96.
ApplyFilters(df, price_max, w) ==
    LET f0 == df
        f1 == FilterPrice(f0, price_max)
        f2 == FilterColumn(f1, "beds", w.beds)
        f3 == FilterColumn(f2, "status", w.status)
        f4 == FilterColumn(f3, "pet_policy", w.pet)
    IN [df |-> df, filtered |-> f4]

\* The pills of a listing card
Pills(row) ==
    LET beds_s  == Strip(row.beds)
        max_res == Strip(row.max_residents)
        pet_s   == Strip(row.pet_policy)
    IN (IF beds_s # <<>> THEN <<[pill |-> "bed", text |-> beds_s]>> ELSE <<>>)
       \o (IF max_res # <<>> THEN <<[pill |-> "residents", text |-> max_res]>> ELSE <<>>)
       \o (IF pet_s # <<>> THEN <<[pill |-> "pet", text |-> pet_s]>> ELSE <<>>)

\* The fragments of one listing card: the kind of each and its text.
ListingCard(row) ==
    LET status_s == Strip(row.status)
        utils    == Strip(row.included_utilities)
        link     == Strip(row.link)
    IN Pills(row)
       \o <<[pill |-> "availability", text |-> Strip(row.availability)]>>
       \o <<[pill |-> "money", text |-> Strip(AsStr(row.price))]>>
       \o (IF status_s # <<>> THEN <<[pill |-> "status", text |-> status_s]>> ELSE <<>>)
       \o (IF utils # <<>> THEN <<[pill |-> "utilities", text |-> utils]>> ELSE <<>>)
       \o (IF link # <<>> THEN <<[pill |-> "link", text |-> link]>> ELSE <<>>)

\* The CSS class that the card's markup gives to each kind of fragment.
ListingClass(kind) ==
    CASE kind = "availability"           -> "ok"
      [] kind = "money"                  -> "money"
      [] kind \in {"status", "utilities"} -> "small-muted"
      [] kind = "link"                   -> "link-btn"
      [] OTHER                           -> "pill"

ListingCards(filtered) == [i \in 1..Len(filtered) |-> ListingCard(filtered[i])]

NoWidgets == [price |-> -1, beds |-> AnyOpt, status |-> AnyOpt, pet |-> AnyOpt]

HNone == [status |-> "none", df |-> <<>>, filtered |-> <<>>, cards |-> <<>>, price_max |-> 0]

\* housing_page as a whole: what one call leaves behind
HousingRun(csv, w) ==
    IF ~csv.exists THEN [HNone EXCEPT !.status = "missing"]
    ELSE IF ~csv.ok \/ PriceRaises(csv) THEN [HNone EXCEPT !.status = "raised"]
    ELSE LET df0       == ReadListings(csv)
             price_max == SliderValue(df0, w)
             objs      == ApplyFilters(df0, price_max, w)
         IN [status    |-> "ok",
             df        |-> objs.df,
             filtered  |-> objs.filtered,
             cards     |-> ListingCards(objs.filtered),
             price_max |-> price_max]

----------------------------------------------------------------------------
(* academics.py *)

SDS  == <<"S","t","a","t","i","s","t","i","c","s"," ","&"," ",
          "D","a","t","a"," ","S","c","i","e","n","c","e">>
ECON == <<"E","c","o","n","o","m","i","c","s">>
W25  == <<"W","i","n","t","e","r"," ","2","0","2","5">>
S25  == <<"S","p","r","i","n","g"," ","2","0","2","5">>
Open  == <<"O","p","e","n">>
Mixed == <<"M","i","x","e","d">>
Full  == <<"F","u","l","l">>

\* the majors of MAJOR_SHEETS that the model keeps: the first, which the
\* selectbox starts at, and one more
MAJORS == {SDS, ECON}

\* MAJOR_DEPARTMENTS.get(major, [])
MAJOR_DEPARTMENTS(major) ==
    IF major = SDS THEN {<<"P","S","T","A","T">>}
    ELSE IF major = ECON THEN {<<"E","C","O","N">>}
    ELSE {}

\* the quarter selectbox's labels that the model keeps; the first is its start
QUARTERS == {W25, S25}

STATUS_OPTIONS == {Open, Mixed, Full}

CSV_COLUMNS == {"major", "course_code", "title", "quarter", "units", "status", "notes"}
DB_COLUMNS  == {"course_code", "title", "units", "description", "status", "quarter"}

\* Optional[pd.DataFrame]; error says that the loader has shown st.error
NoFrame == [kind |-> "none", cols |-> {}, rows |-> <<>>, error |-> FALSE]
Frame(cols, rows) == [kind |-> "df", cols |-> cols, rows |-> rows, error |-> FALSE]

\* the loader has raised in place of returning
Raised == [kind |-> "raised", cols |-> {}, rows |-> <<>>, error |-> FALSE]

\* quarter_ui.split()[0].strip().title()
FirstWord(text) ==
    LET t    == LStrip(text)
        ends == {i \in 1..Len(t) : IsSpace(t[i])}
        stop == IF ends = {} THEN Len(t) + 1 ELSE CHOOSE i \in ends : \A j \in ends : i <= j
    IN SubSeq(t, 1, stop - 1)

QuarterSeason(quarter_ui) == Title(Strip(FirstWord(quarter_ui)))

\* load_courses_df, lines 134-139: one row normalised
NormalizeCourse(raw) ==
    [raw EXCEPT !.major       = Strip(AsStr(raw.major)),
                !.course_code = Strip(AsStr(raw.course_code)),
                !.title       = Strip(AsStr(raw.title)),
                !.quarter     = Title(Strip(AsStr(raw.quarter))),
                !.status      = Title(Strip(AsStr(raw.status)))]

\* line 125
REQUIRED_COLUMNS == {"major", "course_code", "title", "quarter"}

\* line 130
OPTIONAL_COLUMNS == {"units", "status", "notes"}

\* lines 130-132: one row with its missing optional columns set to ""
WithOptional(cols, raw) ==
    [c \in cols \cup OPTIONAL_COLUMNS |-> IF c \in cols THEN raw[c] ELSE <<>>]

\* load_courses_df: pd.read_csv raises on a file that it cannot parse
LoadCoursesDf(src) ==
    IF ~src.has_csv THEN NoFrame
    ELSE IF ~src.csv_ok THEN Raised
    ELSE IF ~(REQUIRED_COLUMNS \subseteq src.csv_cols) THEN [NoFrame EXCEPT !.error = TRUE]
    ELSE Frame(src.csv_cols \cup OPTIONAL_COLUMNS,
               [i \in 1..Len(src.csv) |->
                   NormalizeCourse(WithOptional(src.csv_cols, src.csv[i]))])

\* code points, for ORDER BY's byte-wise comparison of texts
CharOrder == <<" ","$","&",",",".","0","1","2","3","4","5","6","7","8","9">>
                 \o UpperChars \o LowerChars
CharRank(c) == IndexIn(c, CharOrder)

RECURSIVE TextLess(_, _)
TextLess(a, b) ==
    IF b = <<>> THEN FALSE
    ELSE IF a = <<>> THEN TRUE
    ELSE IF Head(a) = Head(b) THEN TextLess(Tail(a), Tail(b))
    ELSE CharRank(Head(a)) < CharRank(Head(b))

\* ORDER BY c.course_code: rows of equal code keep their order
RECURSIVE OrderByCode(_)
OrderByCode(rows) ==
    IF rows = <<>> THEN <<>>
    ELSE LET m == CHOOSE i \in 1..Len(rows) :
                    \A j \in 1..Len(rows) :
                        /\ ~TextLess(rows[j].course_code, rows[i].course_code)
                        /\ (j < i => TextLess(rows[i].course_code, rows[j].course_code))
         IN <<rows[m]>> \o OrderByCode(SubSeq(rows, 1, m - 1) \o SubSeq(rows, m + 1, Len(rows)))

\* courses c LEFT JOIN course_offerings o ON c.course_code = o.course_code
JoinRow(c, o) ==
    [course_code |-> c.course_code, title |-> c.title, units |-> c.units,
     description |-> c.description, dept |-> c.dept,
     status |-> o.status, quarter |-> o.quarter]

NoOffering == [course_code |-> NONE, status |-> NONE, quarter |-> NONE]

RECURSIVE LeftJoin(_, _)
LeftJoin(courses, offerings) ==
    IF courses = <<>> THEN <<>>
    ELSE LET c == Head(courses)
             Mine(o) == o.course_code = c.course_code
             os == SelectSeq(offerings, Mine)
         IN (IF os = <<>> THEN <<JoinRow(c, NoOffering)>>
             ELSE [i \in 1..Len(os) |-> JoinRow(c, os[i])])
            \o LeftJoin(Tail(courses), offerings)

\* load_courses_from_db, without its cache: a query that fails is caught,
\* st.error is shown and None returned
LoadCoursesFromDb(src, major, quarter) ==
    LET departments == MAJOR_DEPARTMENTS(major)
        Wanted(r) == /\ r.dept \in departments
                     /\ (r.quarter = quarter \/ r.quarter = NONE)
        rows == OrderByCode(SelectSeq(LeftJoin(src.courses, src.offerings), Wanted))
    IN IF ~src.has_db \/ departments = {} THEN NoFrame
       ELSE IF ~src.db_ok THEN [NoFrame EXCEPT !.error = TRUE]
       ELSE IF rows = <<>> THEN NoFrame
       ELSE Frame(DB_COLUMNS, rows)

\* @st.cache_data(ttl=3600): the store of load_courses_from_db, a function
\* from the calls' arguments to what the call returned and showed
CacheKey(major, quarter) == <<major, quarter>>

NoCache == <<>>

\* the call through the cache: a stored entry is replayed, the body not run
CachedLoad(cache, src, major, quarter) ==
    IF CacheKey(major, quarter) \in DOMAIN cache
    THEN cache[CacheKey(major, quarter)]
    ELSE LoadCoursesFromDb(src, major, quarter)

\* the store after the call
CacheAfter(cache, src, major, quarter) ==
    IF CacheKey(major, quarter) \in DOMAIN cache THEN cache
    ELSE cache @@ (CacheKey(major, quarter) :> LoadCoursesFromDb(src, major, quarter))

\* Two names for frames: loader_obj is the object the loader returned,
\* courses_df the object the name courses_df is bound to; same says that the
\* two are one object.
Bound(frame) == [loader_obj |-> frame.rows, courses_df |-> frame.rows, same |-> TRUE]

\* courses_df[col] = cells: an assignment into the bound object
AssignColumn(h, col, cells) ==
    LET new == [i \in 1..Len(h.courses_df) |-> [h.courses_df[i] EXCEPT ![col] = cells[i]]]
    IN [h EXCEPT !.courses_df = new,
                 !.loader_obj = IF h.same THEN new ELSE h.loader_obj]

\* rows[mask]
RECURSIVE Masked(_, _)
Masked(rows, mask) ==
    IF rows = <<>> THEN <<>>
    ELSE (IF Head(mask) THEN <<Head(rows)>> ELSE <<>>) \o Masked(Tail(rows), Tail(mask))

\* courses_df = courses_df[mask]: a new object, bound to the name
Rebind(h, mask) ==
    [h EXCEPT !.courses_df = Masked(h.courses_df, mask), !.same = FALSE]

\* lines 281-283: the major filter
MajorFilter(h, major) ==
    LET h1 == AssignColumn(h, "major",
                  [i \in 1..Len(h.courses_df) |-> Strip(AsStr(h.courses_df[i].major))])
    IN Rebind(h1, [i \in 1..Len(h1.courses_df) |-> h1.courses_df[i].major = major])

\* lines 286-291: the quarter filter
QuarterFilter(h, quarter_ui) ==
    LET h1 == AssignColumn(h, "quarter",
                  [i \in 1..Len(h.courses_df) |-> Title(Strip(AsStr(h.courses_df[i].quarter)))])
    IN Rebind(h1, [i \in 1..Len(h1.courses_df) |->
                      \/ h1.courses_df[i].quarter = QuarterSeason(quarter_ui)
                      \/ h1.courses_df[i].quarter = quarter_ui])

\* lines 280-291: the major and the quarter filter
MajorQuarterFilter(frame, major, quarter_ui) ==
    LET h0 == Bound(frame)
        h1 == IF "major" \in frame.cols THEN MajorFilter(h0, major) ELSE h0
    IN IF "quarter" \in frame.cols THEN QuarterFilter(h1, quarter_ui) ELSE h1

\* lines 313-314: the status filter
StatusFilter(h, status_filter) ==
    IF status_filter # {}
    THEN Rebind(h, [i \in 1..Len(h.courses_df) |->
                       Title(AsStr(h.courses_df[i].status)) \in status_filter])
    ELSE h

\* get_course_stats: the four counts of the metrics row
GetCourseStats(df) ==
    LET Is(text) == {i \in 1..Len(df) : Lower(AsStr(df[i].status)) = Lower(text)}
    IN [total |-> Len(df),
        open  |-> Cardinality(Is(Open)),
        full  |-> Cardinality(Is(Full)),
        mixed |-> Cardinality(Is(Mixed))]

\* row.get(key, "")
RowGet(row, key) == IF key \in DOMAIN row THEN row[key] ELSE <<>>

\* lines 167-179: the background and the text colour of the status badge
BadgeColours(status) ==
    LET status_lower == Lower(status)
    IN IF status_lower = Lower(Open) THEN [bg |-> "#ecfdf3", fg |-> "#166534"]
       ELSE IF status_lower = Lower(Full) THEN [bg |-> "#fef2f2", fg |-> "#991b1b"]
       ELSE IF status_lower = Lower(Mixed) THEN [bg |-> "#fffbeb", fg |-> "#92400e"]
       ELSE [bg |-> "#f3f4f6", fg |-> "#374151"]

UNITS_NA  == <<"n","/","a">>
STATUS_NA == <<"S","t","a","t","u","s"," ","n","/","a">>

\* display_course_card: what the card's markup holds; notes is the sequence
\* of the notes blocks, empty or of one block
DisplayCourseCard(row) ==
    LET code   == Strip(AsStr(RowGet(row, "course_code")))
        title  == Strip(AsStr(RowGet(row, "title")))
        units  == Strip(AsStr(RowGet(row, "units")))
        status == Strip(AsStr(RowGet(row, "status")))
        notes  == Strip(AsStr(RowGet(row, "notes")))
    IN [code   |-> code,
        title  |-> title,
        units  |-> IF units # <<>> THEN units ELSE UNITS_NA,
        status |-> IF status # <<>> THEN status ELSE STATUS_NA,
        badge  |-> BadgeColours(status),
        notes  |-> IF notes # <<>> THEN <<notes>> ELSE <<>>]

\* st.columns(3)
GRID_COLUMNS == 3

\* courses_df.iloc[idx], idx counted from 0: IndexError past the last row
Iloc(rows, idx) ==
    IF idx < Len(rows)
    THEN [idx |-> idx, kind |-> "card", card |-> DisplayCourseCard(rows[idx + 1])]
    ELSE [idx |-> idx, kind |-> "IndexError", card |-> <<>>]

\* the inner loop without its break
GridRowNoBreak(rows, i) == [j \in 1..GRID_COLUMNS |-> Iloc(rows, i + j - 1)]

\* lines 318-322: the cards of the grid row that starts at index i; the loop
\* leaves at the first idx >= len(courses_df)
GridRow(rows, i) ==
    LET left == Len(rows) - i
        k    == IF left < GRID_COLUMNS THEN left ELSE GRID_COLUMNS
    IN [j \in 1..k |-> Iloc(rows, i + j - 1)]

\* lines 316-322: range(0, len(courses_df), 3) and a grid row for each
CardGrid(rows) ==
    [g \in 1..((Len(rows) + GRID_COLUMNS - 1) \div GRID_COLUMNS) |->
        GridRow(rows, (g - 1) * GRID_COLUMNS)]

GridRaises(grid) ==
    \E g \in 1..Len(grid) : \E j \in 1..Len(grid[g]) : grid[g][j].kind = "IndexError"

NoClasses ==
    [kind |-> "none", at_load |-> <<>>, loader_obj |-> <<>>, total |-> 0, rows |-> <<>>,
     error |-> FALSE, stats |-> GetCourseStats(<<>>), grid |-> <<>>]

\* the tab "Classes by quarter"
ClassesTab(src, w, cache) ==
    LET frame == IF src.has_db THEN CachedLoad(cache, src, w.major, w.quarter)
                 ELSE LoadCoursesDf(src)
        h  == MajorQuarterFilter(frame, w.major, w.quarter)
        hs == StatusFilter(h, w.status_filter)
        grid == CardGrid(hs.courses_df)
    IN IF frame.kind = "raised" THEN [NoClasses EXCEPT !.kind = "raised"]
       ELSE IF frame.kind = "none" \/ frame.rows = <<>>
       THEN [NoClasses EXCEPT !.kind = "no_data", !.at_load = frame.rows,
                              !.loader_obj = frame.rows, !.error = frame.error]
       ELSE IF h.courses_df = <<>>
       THEN [NoClasses EXCEPT !.kind = "no_classes", !.at_load = frame.rows,
                              !.loader_obj = h.loader_obj]
       ELSE [kind       |-> IF GridRaises(grid) THEN "raised" ELSE "cards",
             at_load    |-> frame.rows,
             loader_obj |-> hs.loader_obj,
             total      |-> Len(h.courses_df),
             rows       |-> hs.courses_df,
             error      |-> FALSE,
             stats      |-> GetCourseStats(h.courses_df),
             grid       |-> grid]

SEARCH_LIMIT == 50

\* course_code LIKE '%q%': ASCII letters match without case, NULL matches nothing.
\* The model's queries hold neither % nor _.
Like(cell, q) == cell # NONE /\ Contains(Lower(cell), Lower(q))

\* lines 335-351: the search in the courses table
SearchDb(src, q) ==
    LET Hit(c) == Like(c.course_code, q) \/ Like(c.title, q) \/ Like(c.description, q)
        hits == SelectSeq(src.courses, Hit)
    IN SubSeq(hits, 1, IF Len(hits) < SEARCH_LIMIT THEN Len(hits) ELSE SEARCH_LIMIT)

\* Series.str.contains(pat): a regular-expression search.  Of the special
\* characters the model's queries hold only ".", which matches any character.
StrContains(text, pat) ==
    \E i \in 0..(Len(text) - Len(pat)) :
        \A k \in 1..Len(pat) : pat[k] = "." \/ text[i + k] = pat[k]

\* line 357
SearchKey(q) == Strip(Lower(q))

\* lines 357-363: the search in the CSV table
SearchCsv(df, q) ==
    LET qq == SearchKey(q)
        Hit(r) == \/ StrContains(Lower(AsStr(r.course_code)), qq)
                  \/ StrContains(Lower(AsStr(r.title)), qq)
                  \/ StrContains(Lower(AsStr(r.notes)), qq)
    IN SelectSeq(df, Hit)

NoSearch == [kind |-> "none", loaded |-> FALSE, rows |-> <<>>]

\* q is None in place of not q
IsNoneQuery(q) == q = NONE

\* not q
IsEmptyQuery(q) == q = <<>>

\* the tab "Course search"; the query of lines 336-345 is under no try
SearchTab(src, q) ==
    IF IsEmptyQuery(q) THEN [NoSearch EXCEPT !.kind = "prompt"]
    ELSE IF src.has_db
    THEN LET results == SearchDb(src, q)
         IN IF ~src.db_ok THEN [NoSearch EXCEPT !.kind = "raised"]
            ELSE [kind   |-> IF results = <<>> THEN "no_results" ELSE "results",
                  loaded |-> TRUE,
                  rows   |-> results]
    ELSE LET df == LoadCoursesDf(src)
         IN IF df.kind = "raised" THEN [NoSearch EXCEPT !.kind = "raised"]
            ELSE IF df.kind = "none" \/ df.rows = <<>>
            THEN [NoSearch EXCEPT !.kind = "no_csv", !.loaded = TRUE]
            ELSE LET res == SearchCsv(df.rows, q)
                 IN [kind   |-> IF res = <<>> THEN "no_results" ELSE "results",
                     loaded |-> TRUE,
                     rows   |-> res]

\* st.number_input("Units", min_value=1, max_value=8, value=4)
MIN_UNITS == 1
MAX_UNITS == 8
DEFAULT_UNITS == 4

\* lines 402-407: the bounds of a typical load
MIN_LOAD == 12
MAX_LOAD == 16

\* the session has no key "planned_courses" yet
NoPlan == [present |-> FALSE, list |-> <<>>]

\* lines 376-377
PlannerInit(plan) == IF plan.present THEN plan ELSE [present |-> TRUE, list |-> <<>>]

\* the new pair put in front of the list
AddCourseFirst(plan, new_course, new_units) ==
    [plan EXCEPT !.list = <<[Course |-> new_course, Units |-> new_units]>> \o @]

\* line 391
AddCourse(plan, new_course, new_units) ==
    [plan EXCEPT !.list = Append(@, [Course |-> new_course, Units |-> new_units])]

\* line 410
ClearAll(plan) == [plan EXCEPT !.list = <<>>]

RECURSIVE SumUnits(_)
SumUnits(list) == IF list = <<>> THEN 0 ELSE Head(list).Units + SumUnits(Tail(list))

NoPlanner == [kind |-> "none", list |-> <<>>, total_units |-> 0, load |-> "none"]

\* lines 394-413: the table, the total and the verdict on the load
PlannerView(list) ==
    LET total_units == SumUnits(list)
    IN IF list = <<>> THEN [NoPlanner EXCEPT !.kind = "empty"]
       ELSE [kind        |-> "table",
             list        |-> list,
             total_units |-> total_units,
             load        |-> IF total_units < MIN_LOAD THEN "below"
                             ELSE IF total_units <= MAX_LOAD THEN "typical"
                             ELSE "heavy"]

\* the tab "My planner": the list after the run, what the run has drawn and
\* whether it ends in st.rerun()
PlannerTab(plan, w, add_btn, clear_btn) ==
    LET p0 == PlannerInit(plan)
    IN IF add_btn /\ w.new_course # <<>>
       THEN [plan  |-> AddCourse(p0, w.new_course, w.new_units),
             view  |-> NoPlanner,
             rerun |-> TRUE]
       ELSE IF p0.list # <<>> /\ clear_btn
       THEN [plan |-> ClearAll(p0), view |-> PlannerView(p0.list), rerun |-> TRUE]
       ELSE [plan |-> p0, view |-> PlannerView(p0.list), rerun |-> FALSE]

AcadWidgets ==
    [major |-> SDS, quarter |-> W25, status_filter |-> STATUS_OPTIONS, q |-> <<>>,
     new_course |-> <<>>, new_units |-> DEFAULT_UNITS]

ANone == [status |-> "none", classes |-> NoClasses, search |-> NoSearch, planner |-> NoPlanner]

\* academics_page up to the planner tab: a tab that raises ends the run
AcademicsRun(src, w, cache) ==
    LET classes == ClassesTab(src, w, cache)
        search  == SearchTab(src, w.q)
    IN IF ~src.has_db /\ ~src.has_csv THEN [ANone EXCEPT !.status = "no_source"]
       ELSE IF classes.kind = "raised"
       THEN [ANone EXCEPT !.status = "raised", !.classes = classes]
       ELSE IF search.kind = "raised"
       THEN [ANone EXCEPT !.status = "raised", !.classes = classes, !.search = search]
       ELSE [ANone EXCEPT !.status = "ok", !.classes = classes, !.search = search]

----------------------------------------------------------------------------
(* The files the program reads: the inputs of the model *)

MaxRows == 2
MaxSlider == 3

SeqsUpTo(S, n) == UNION {[1..k -> S] : k \in 0..n}

avail  == <<"a","v","a","i","l">>
leased == <<"l","e","a","s","e","d">>
cats   == <<"C","a","t","s">>
catsdogs == <<"C","a","t","s",","," ","D","o","g","s">>

\* price cells: empty, whole, fractional, with a currency sign, words only,
\* and two that float() rejects
PriceTexts ==
    {NA, <<"2">>, <<"1",".","5">>, <<"$","3">>, <<"c","a","l","l">>,
     <<"1",".","2",".">>}

PriceRows ==
    {[price |-> p, beds |-> <<"2">>, status |-> avail, pet_policy |-> cats,
      max_residents |-> <<"2">>] : p \in PriceTexts}
    \cup {[price |-> <<"$","3">>, beds |-> <<"2">>, status |-> avail,
           pet_policy |-> cats, max_residents |-> <<"0">>],
          [price |-> <<"2">>, beds |-> <<"2">>, status |-> avail,
           pet_policy |-> cats, max_residents |-> NA]}

CategoryRows ==
    {[price |-> <<"1">>, beds |-> b, status |-> s, pet_policy |-> p,
      max_residents |-> <<"2">>] :
        b \in {<<"1">>, <<"2">>}, s \in {avail, leased}, p \in {cats, catsdogs}}
    \cup {[price |-> <<"1">>, beds |-> NA, status |-> NA, pet_policy |-> NA,
           max_residents |-> NA]}

\* the columns of the price and the category rows
BaseColumns == {"price", "beds", "status", "pet_policy", "max_residents"}

\* A file: whether it exists, whether pd.read_csv can parse it, its column
\* names and its rows.
NoFile == [exists |-> FALSE, ok |-> TRUE, cols |-> {}, rows |-> <<>>]
CsvFile(cols, rows) == [exists |-> TRUE, ok |-> TRUE, cols |-> cols, rows |-> rows]

HousingFiles ==
    {NoFile}
    \cup {CsvFile(BaseColumns, r) :
            r \in SeqsUpTo(PriceRows, MaxRows) \cup SeqsUpTo(CategoryRows, MaxRows)}

\* the two listings of the documented scenario, prices in thousands
SampleListings ==
    CsvFile(BaseColumns,
            << [price |-> <<"2">>, beds |-> <<"2">>, status |-> avail,
                pet_policy |-> cats, max_residents |-> <<"2">>],
               [price |-> <<"5">>, beds |-> <<"4">>, status |-> leased,
                pet_policy |-> catsdogs, max_residents |-> <<"4">>] >>)

MaxCourses == 2
MaxOfferings == 1
MaxPlanned == 2

\* sequences without repetition (course_code is the primary key of courses)
DistinctSeqsUpTo(S, n) ==
    {q \in SeqsUpTo(S, n) : \A i, j \in 1..Len(q) : i # j => q[i] # q[j]}

PSTAT5  == <<"P","S","T","A","T"," ","5">>
PSTAT10 == <<"P","S","T","A","T"," ","1","0">>
ECON1   == <<"E","C","O","N"," ","1">>
four    == <<"4">>

CourseRows ==
    {[major |-> SDS, course_code |-> PSTAT5, title |-> <<"D","a","t","a">>,
      quarter |-> <<"W","i","n","t","e","r">>, units |-> four,
      status |-> <<"o","p","e","n">>, notes |-> NA],
     [major |-> <<" ">> \o SDS, course_code |-> PSTAT10 \o <<" ">>,
      title |-> <<"S","t","a","t","s">>,
      quarter |-> <<"w","i","n","t","e","r"," ","2","0","2","5">>, units |-> four,
      status |-> <<"F","U","L","L">>, notes |-> <<"D","a","t","a"," ","l","a","b">>],
     [major |-> SDS, course_code |-> <<"P","S","T","A","T"," ","8">>,
      title |-> <<"R"," ","L","a","b">>,
      quarter |-> <<"S","p","r","i","n","g"," ","2","0","2","5">>, units |-> NA,
      status |-> NA, notes |-> <<"n","o"," ","l","a","b">>],
     [major |-> ECON, course_code |-> ECON1, title |-> <<"M","i","c","r","o">>,
      quarter |-> <<"W","i","n","t","e","r">>, units |-> four,
      status |-> <<"m","i","x","e","d">>, notes |-> NA]}

DbCourses ==
    {[course_code |-> PSTAT5, title |-> <<"D","a","t","a">>, units |-> four,
      description |-> NONE, dept |-> <<"P","S","T","A","T">>],
     [course_code |-> PSTAT10, title |-> <<"S","t","a","t","s">>, units |-> four,
      description |-> <<"D","a","t","a"," ","l","a","b">>, dept |-> <<"P","S","T","A","T">>],
     [course_code |-> ECON1, title |-> <<"M","i","c","r","o">>, units |-> four,
      description |-> <<>>, dept |-> <<"E","C","O","N">>]}

DbOfferings ==
    {[course_code |-> PSTAT5, status |-> Open, quarter |-> W25],
     [course_code |-> PSTAT10, status |-> Full, quarter |-> S25],
     [course_code |-> ECON1, status |-> NONE, quarter |-> W25]}

\* csv_ok: pd.read_csv can parse the file; db_ok: the database answers queries
NoSource ==
    [has_db |-> FALSE, has_csv |-> FALSE, csv |-> <<>>, courses |-> <<>>, offerings |-> <<>>,
     csv_cols |-> CSV_COLUMNS, csv_ok |-> TRUE, db_ok |-> TRUE]

CsvSources == {[NoSource EXCEPT !.has_csv = TRUE, !.csv = t] : t \in SeqsUpTo(CourseRows, MaxCourses)}

DbSources ==
    {[NoSource EXCEPT !.has_db = TRUE, !.courses = c, !.offerings = o] :
        c \in DistinctSeqsUpTo(DbCourses, MaxCourses),
        o \in DistinctSeqsUpTo(DbOfferings, MaxOfferings)}

CourseSources == {NoSource} \cup CsvSources \cup DbSources

\* a CSV of two courses of the first major
SampleCourses ==
    [NoSource EXCEPT
        !.has_csv = TRUE,
        !.csv = << [major |-> SDS, course_code |-> PSTAT5, title |-> <<"D","a","t","a">>,
                    quarter |-> <<"W","i","n","t","e","r">>, units |-> four,
                    status |-> Open, notes |-> NA],
                   [major |-> SDS, course_code |-> PSTAT10, title |-> <<"S","t","a","t","s">>,
                    quarter |-> <<"W","i","n","t","e","r">>, units |-> four,
                    status |-> Full, notes |-> <<"D","a","t","a"," ","l","a","b">>] >>]

\* the columns of housing_listings.csv that the model keeps
DetailColumns ==
    BaseColumns \cup {"address", "installment", "availability", "included_utilities", "link"}

\* two listings, the second with empty cells in its optional columns
DetailRows ==
    << [address |-> <<"6","5"," ","D","P">>, price |-> <<"2">>, installment |-> <<"1">>,
        beds |-> <<"2">>, status |-> <<"a","v","a","i","l","a","b","l","e">>,
        pet_policy |-> cats, max_residents |-> <<"2">>, availability |-> <<"N","o","w">>,
        included_utilities |-> <<"w","a","t","e","r">>, link |-> <<"h","t","t","p">>],
       [address |-> <<"6","7"," ","E","l">>, price |-> <<"3">>, installment |-> <<"1">>,
        beds |-> <<"2">>, status |-> leased,
        pet_policy |-> NA, max_residents |-> <<"2">>, availability |-> NA,
        included_utilities |-> NA, link |-> NA] >>

\* the columns that a header may lack
DroppedHousingColumns == {"address", "price", "installment", "included_utilities", "link"}
DroppedCourseColumns  == {"major", "quarter", "units", "status", "notes"}

\* the two listings under every header
HeaderHousingFiles ==
    {CsvFile(DetailColumns \ D, DetailRows) : D \in SUBSET DroppedHousingColumns}

\* the two sample courses under every header
HeaderCourseSources ==
    {[SampleCourses EXCEPT !.csv_cols = CSV_COLUMNS \ D] : D \in SUBSET DroppedCourseColumns}

\* a housing file that pd.read_csv cannot parse (no columns, a broken quote)
MalformedListings == [NoFile EXCEPT !.exists = TRUE, !.ok = FALSE]

FaultHousingFiles == {NoFile, SampleListings, MalformedListings}

\* a database of two courses, one of them offered in the first quarter
SampleDb ==
    [NoSource EXCEPT
        !.has_db = TRUE,
        !.courses = << [course_code |-> PSTAT5, title |-> <<"D","a","t","a">>, units |-> four,
                        description |-> NONE, dept |-> <<"P","S","T","A","T">>],
                       [course_code |-> ECON1, title |-> <<"M","i","c","r","o">>, units |-> four,
                        description |-> <<>>, dept |-> <<"E","C","O","N">>] >>,
        !.offerings = << [course_code |-> PSTAT5, status |-> Open, quarter |-> W25] >>]

\* the course sources in good health and out of it: a CSV that pd.read_csv
\* cannot parse, a database that does not answer
FaultSources ==
    {NoSource, SampleCourses, [SampleCourses EXCEPT !.csv_ok = FALSE, !.csv = <<>>],
     SampleDb, [SampleDb EXCEPT !.db_ok = FALSE]}

MaxGridRows == 5

\* the k-th course of a long list: PSTAT k, open and full in turn
GridCourse(k) ==
    [major |-> SDS, course_code |-> <<"P","S","T","A","T"," ">> \o <<DigitChars[k + 1]>>,
     title |-> <<"D","a","t","a">>, quarter |-> <<"W","i","n","t","e","r">>,
     units |-> four, status |-> IF k % 2 = 1 THEN Open ELSE Full, notes |-> NA]

\* CSV files of 0 to MaxGridRows courses of the first major and quarter
GridSources ==
    {[NoSource EXCEPT !.has_csv = TRUE, !.csv = [i \in 1..k |-> GridCourse(i)]] :
        k \in 0..MaxGridRows}

\* what the user types into the planner's "Course code" box
PlannerCodes == {<<>>, PSTAT5}

\* what the user sets the "Units" box to: its least, first and greatest value
PlannerUnits == {MIN_UNITS, DEFAULT_UNITS, MAX_UNITS}

\* what the user types into the search box
Queries ==
    {<<>>, <<"d","a","t","a">>, <<"S","T">>, <<".">>, <<"5"," ">>, <<"n","a","n">>}

----------------------------------------------------------------------------
(* The session *)

InitSession ==
    /\ main_nav = "Home"
    /\ sidebar_nav_open = FALSE
    /\ pc = "run"
    /\ event = NoEvent
    /\ fresh = FALSE
    /\ navigated = FALSE
    /\ display = Blank
    /\ hw = NoWidgets
    /\ hout = HNone
    /\ aw = AcadWidgets
    /\ aout = ANone
    /\ planned_courses = NoPlan
    /\ db_cache = NoCache

Init ==
    /\ InitSession
    /\ housing_csv = SampleListings
    /\ courses_src = SampleCourses

InitHousing ==
    /\ InitSession
    /\ housing_csv \in HousingFiles
    /\ courses_src = SampleCourses

InitAcademics ==
    /\ InitSession
    /\ housing_csv = SampleListings
    /\ courses_src \in CourseSources

InitFaults ==
    /\ InitSession
    /\ housing_csv \in FaultHousingFiles
    /\ courses_src \in FaultSources

InitPlanner ==
    /\ InitSession
    /\ housing_csv = SampleListings
    /\ courses_src \in {SampleCourses, SampleDb}

InitHeaders ==
    /\ InitSession
    /\ \/ housing_csv \in HeaderHousingFiles /\ courses_src = SampleCourses
       \/ housing_csv = SampleListings /\ courses_src \in HeaderCourseSources

InitGrid ==
    /\ InitSession
    /\ housing_csv = SampleListings
    /\ courses_src \in GridSources

(* User interactions: each stores its event and asks for a script run. *)

Interact(kind, arg, isNav) ==
    /\ pc = "idle"
    /\ pc' = "run"
    /\ event' = [kind |-> kind, arg |-> arg]
    /\ fresh' = TRUE
    /\ navigated' = (navigated \/ isNav)
    /\ UNCHANGED <<main_nav, sidebar_nav_open, display, housing_csv, hout,
                   courses_src, aout, planned_courses, db_cache>>

\* the sidebar's hamburger button
ClickHamburger ==
    /\ Interact("hamburger", "none", FALSE)
    /\ UNCHANGED <<hw, aw>>

\* a sidebar navigation button, drawn only while the navigation is open
ClickSideNav ==
    \E i \in 1..Len(NAV_LABELS) :
        /\ sidebar_nav_open
        /\ Interact("side_nav", NAV_LABELS[i], TRUE)
        /\ UNCHANGED <<hw, aw>>

\* an "Open ..." button of the home page
ClickHomeRow ==
    \E btn \in DOMAIN HOME_ROWS :
        /\ display = [page |-> "Home", complete |-> TRUE]
        /\ Interact("home_btn", btn, TRUE)
        /\ UNCHANGED <<hw, aw>>

\* a widget of the professors or the Q&A page (name, department, question, Answer)
InteractOther ==
    /\ display.page \in {"Professors", "Q&A"}
    /\ Interact("widget", "none", FALSE)
    /\ UNCHANGED <<hw, aw>>

HousingOnScreen == display.page = "Housing" /\ hout.status = "ok"

\* the price slider, moved to one of its values
SlidePrice ==
    \E v \in 0..MaxSlider :
        /\ HousingOnScreen
        /\ v <= IntOf(PriceMaxDefault(hout.df))
        /\ v # hout.price_max
        /\ Interact("widget", "none", FALSE)
        /\ hw' = [hw EXCEPT !.price = v]
        /\ UNCHANGED aw

SelectBeds ==
    \E b \in Options(hout.df, "beds") :
        /\ HousingOnScreen
        /\ b # hw.beds
        /\ Interact("widget", "none", FALSE)
        /\ hw' = [hw EXCEPT !.beds = b]
        /\ UNCHANGED aw

SelectStatus ==
    \E st \in Options(hout.df, "status") :
        /\ HousingOnScreen
        /\ st # hw.status
        /\ Interact("widget", "none", FALSE)
        /\ hw' = [hw EXCEPT !.status = st]
        /\ UNCHANGED aw

SelectPet ==
    \E p \in Options(hout.df, "pet_policy") :
        /\ HousingOnScreen
        /\ p # hw.pet
        /\ Interact("widget", "none", FALSE)
        /\ hw' = [hw EXCEPT !.pet = p]
        /\ UNCHANGED aw

AcademicsOnScreen == display.page = "Academics" /\ aout.status = "ok"

\* the tab of the given output has raised while the tabs before it have not
RaisedIn(tab) ==
    /\ display.page = "Academics" /\ aout.status = "raised"
    /\ aout[tab].kind = "raised"
    /\ tab = "search" => aout.classes.kind # "raised"

\* the major selectbox is drawn above the tabs
SelectMajor ==
    \E m \in MAJORS :
        /\ AcademicsOnScreen \/ RaisedIn("classes") \/ RaisedIn("search")
        /\ m # aw.major
        /\ Interact("widget", "none", FALSE)
        /\ aw' = [aw EXCEPT !.major = m]
        /\ UNCHANGED hw

SelectQuarter ==
    \E qu \in QUARTERS :
        /\ AcademicsOnScreen \/ RaisedIn("search")
        /\ qu # aw.quarter
        /\ Interact("widget", "none", FALSE)
        /\ aw' = [aw EXCEPT !.quarter = qu]
        /\ UNCHANGED hw

\* the status multiselect, drawn only above a non-empty list of classes
SelectStatusFilter ==
    \E sel \in SUBSET STATUS_OPTIONS :
        /\ AcademicsOnScreen
        /\ aout.classes.kind = "cards"
        /\ sel # aw.status_filter
        /\ Interact("widget", "none", FALSE)
        /\ aw' = [aw EXCEPT !.status_filter = sel]
        /\ UNCHANGED hw

\* the search box
TypeQuery ==
    \E q \in Queries :
        /\ AcademicsOnScreen \/ RaisedIn("search")
        /\ q # aw.q
        /\ Interact("widget", "none", FALSE)
        /\ aw' = [aw EXCEPT !.q = q]
        /\ UNCHANGED hw

\* the form's "Add course" button; the form sends its two values with the click
ClickAddCourse ==
    \E code \in PlannerCodes, units \in PlannerUnits :
        /\ AcademicsOnScreen
        /\ Len(planned_courses.list) < MaxPlanned
        /\ Interact("add_course", "none", FALSE)
        /\ aw' = [aw EXCEPT !.new_course = code, !.new_units = units]
        /\ UNCHANGED hw

\* the "Clear all" button, drawn only under a list that is not empty
ClickClearAll ==
    /\ AcademicsOnScreen
    /\ planned_courses.list # <<>>
    /\ Interact("clear_all", "none", FALSE)
    /\ UNCHANGED <<hw, aw>>

(* The environment: what happens to the database between two interactions *)

\* gauchoGPT.db stops answering queries (locked, overwritten, a table dropped)
DbBreaks ==
    /\ pc = "idle"
    /\ courses_src.has_db /\ courses_src.db_ok
    /\ courses_src' = [courses_src EXCEPT !.db_ok = FALSE]
    /\ UNCHANGED <<nav_vars, housing_vars, aw, aout, planned_courses, db_cache>>

\* gauchoGPT.db answers again
DbRepaired ==
    /\ pc = "idle"
    /\ courses_src.has_db /\ ~courses_src.db_ok
    /\ courses_src' = [courses_src EXCEPT !.db_ok = TRUE]
    /\ UNCHANGED <<nav_vars, housing_vars, aw, aout, planned_courses, db_cache>>

\* ttl=3600: an hour passes without a call, and the stored entries are gone
CacheExpires ==
    /\ pc = "idle"
    /\ db_cache # NoCache
    /\ db_cache' = NoCache
    /\ UNCHANGED <<nav_vars, housing_vars, academics_vars, planned_courses>>

(* Script runs of app.py *)

\* lines 102-104: the hamburger was clicked
RunHamburger ==
    /\ pc = "run" /\ fresh /\ event.kind = "hamburger"
    /\ sidebar_nav_open' = ~sidebar_nav_open
    /\ fresh' = FALSE
    /\ display' = Blank
    /\ UNCHANGED <<main_nav, pc, event, navigated>>
    /\ UNCHANGED <<housing_vars, academics_vars, planned_courses, db_cache>>

\* every button of the loop leading to the loop's last label
SideNavTargetLast(label) == NAV_LABELS[Len(NAV_LABELS)]

\* the page a sidebar button leads to
SideNavTarget(label) == label

\* lines 107-117: a sidebar navigation button was clicked
RunSideNav ==
    /\ pc = "run" /\ fresh /\ event.kind = "side_nav"
    /\ sidebar_nav_open
    /\ main_nav' = SideNavTarget(event.arg)
    /\ sidebar_nav_open' = FALSE
    /\ fresh' = FALSE
    /\ display' = Blank
    /\ UNCHANGED <<pc, event, navigated>>
    /\ UNCHANGED <<housing_vars, academics_vars, planned_courses, db_cache>>

\* The run gets as far as line 251 and calls PAGES[main_nav].
Dispatches(handler) ==
    /\ pc = "run"
    /\ ~(fresh /\ event.kind \in {"hamburger", "side_nav"})
    /\ PAGES[main_nav] = handler

\* A page's widgets that a run does not draw lose their values, and what the
\* page showed is gone.
LeaveHousing == hw' = NoWidgets /\ hout' = HNone /\ UNCHANGED housing_csv
LeaveAcademics == aw' = AcadWidgets /\ aout' = ANone /\ UNCHANGED courses_src

\* the button's text stored in place of its nav_target
HomeRowTargetText(btn) == btn

\* the page an "Open ..." button leads to
HomeRowTarget(btn) == HOME_ROWS[btn]

\* home_page: a clicked row sets the page and reruns, otherwise the page completes
RunHomePage ==
    /\ Dispatches("home_page")
    /\ fresh' = FALSE
    /\ IF fresh /\ event.kind = "home_btn"
       THEN /\ main_nav' = HomeRowTarget(event.arg)
            /\ display' = [page |-> "Home", complete |-> FALSE]
            /\ pc' = "run"
       ELSE /\ display' = [page |-> "Home", complete |-> TRUE]
            /\ pc' = "idle"
            /\ UNCHANGED main_nav
    /\ LeaveHousing /\ LeaveAcademics
    /\ UNCHANGED <<sidebar_nav_open, event, navigated, planned_courses, db_cache>>

\* housing_page
RunHousingPage ==
    /\ Dispatches("housing_page")
    /\ fresh' = FALSE
    /\ hout' = HousingRun(housing_csv, hw)
    /\ display' = [page |-> "Housing", complete |-> hout'.status # "raised"]
    /\ pc' = "idle"
    /\ LeaveAcademics
    /\ UNCHANGED <<main_nav, sidebar_nav_open, event, navigated, housing_csv, hw,
                   planned_courses, db_cache>>

\* The widgets that a run of academics_page has not drawn lose their values:
\* the quarter when the CSV could not be read, the status multiselect without
\* cards, the query when the first tab has raised, the form when the planner
\* tab was not reached.
WidgetsAfter(w, run) ==
    [major         |-> w.major,
     quarter       |-> IF run.classes.kind = "raised" /\ run.classes.at_load = <<>>
                       THEN AcadWidgets.quarter ELSE w.quarter,
     status_filter |-> IF run.classes.kind = "cards" THEN w.status_filter
                       ELSE AcadWidgets.status_filter,
     q             |-> IF run.classes.kind = "raised" THEN AcadWidgets.q ELSE w.q,
     new_course    |-> IF run.status = "ok" THEN w.new_course ELSE AcadWidgets.new_course,
     new_units     |-> IF run.status = "ok" THEN w.new_units ELSE AcadWidgets.new_units]

\* academics_page: the tabs in their order; the planner tab is reached when
\* none before it has raised, and st.rerun() in it asks for another run
RunAcademicsPage ==
    /\ Dispatches("academics_page")
    /\ fresh' = FALSE
    /\ \E run \in {AcademicsRun(courses_src, aw, db_cache)} :
       \E tab \in {PlannerTab(planned_courses, aw,
                                fresh /\ event.kind = "add_course",
                                fresh /\ event.kind = "clear_all")} :
          LET reached == run.status = "ok"
              rerun   == reached /\ tab.rerun
          IN /\ aout' = IF reached THEN [run EXCEPT !.planner = tab.view] ELSE run
             /\ planned_courses' = IF reached THEN tab.plan ELSE planned_courses
             /\ aw' = IF run.status = "no_source" THEN AcadWidgets ELSE WidgetsAfter(aw, run)
             /\ pc' = IF rerun THEN "run" ELSE "idle"
             /\ display' = [page     |-> "Academics",
                            complete |-> run.status = "no_source" \/ (reached /\ ~rerun)]
    /\ db_cache' = IF courses_src.has_db
                   THEN CacheAfter(db_cache, courses_src, aw.major, aw.quarter)
                   ELSE db_cache
    /\ LeaveHousing
    /\ UNCHANGED <<main_nav, sidebar_nav_open, event, navigated, courses_src>>

\* profs_page, aid_jobs_page, qa_page: no session state, no files
RunStaticPage ==
    /\ \E h \in {"profs_page", "aid_jobs_page", "qa_page"} : Dispatches(h)
    /\ fresh' = FALSE
    /\ display' = [page |-> main_nav, complete |-> TRUE]
    /\ pc' = "idle"
    /\ LeaveHousing /\ LeaveAcademics
    /\ UNCHANGED <<main_nav, sidebar_nav_open, event, navigated, planned_courses, db_cache>>

Next ==
    \/ ClickHamburger
    \/ ClickSideNav
    \/ ClickHomeRow
    \/ InteractOther
    \/ SlidePrice
    \/ SelectBeds
    \/ SelectStatus
    \/ SelectPet
    \/ SelectMajor
    \/ SelectQuarter
    \/ SelectStatusFilter
    \/ TypeQuery
    \/ RunHamburger
    \/ RunSideNav
    \/ RunHomePage
    \/ RunHousingPage
    \/ RunAcademicsPage
    \/ RunStaticPage

\* The whole program over one pair of sample files.
Spec == Init /\ [][Next]_vars

\* The housing page over every housing file, entered from the home page.
NextHousing ==
    \/ ClickHomeRow
    \/ SlidePrice
    \/ SelectBeds
    \/ SelectStatus
    \/ SelectPet
    \/ RunHomePage
    \/ RunHousingPage
    \/ RunAcademicsPage
    \/ RunStaticPage

SpecHousing == InitHousing /\ [][NextHousing]_vars

\* The academics page over every course source, entered from the home page.
NextAcademics ==
    \/ ClickHomeRow
    \/ SelectMajor
    \/ SelectQuarter
    \/ SelectStatusFilter
    \/ TypeQuery
    \/ RunHomePage
    \/ RunHousingPage
    \/ RunAcademicsPage
    \/ RunStaticPage

SpecAcademics == InitAcademics /\ [][NextAcademics]_vars

\* The course search over every course source: the query is the only widget
\* that the search tab reads.
NextSearch ==
    \/ ClickHomeRow
    \/ TypeQuery
    \/ RunHomePage
    \/ RunHousingPage
    \/ RunAcademicsPage
    \/ RunStaticPage

SpecSearch == InitAcademics /\ [][NextSearch]_vars

\* The two pages over files and a database that fail, the database failing
\* and recovering between the interactions.
NextFaults ==
    \/ ClickHomeRow
    \/ SelectMajor
    \/ SelectQuarter
    \/ TypeQuery
    \/ DbBreaks
    \/ DbRepaired
    \/ CacheExpires
    \/ RunHomePage
    \/ RunHousingPage
    \/ RunAcademicsPage
    \/ RunStaticPage

SpecFaults == InitFaults /\ [][NextFaults]_vars

\* The planner among the other interactions of the academics page.
NextPlanner ==
    \/ ClickHomeRow
    \/ SelectQuarter
    \/ TypeQuery
    \/ ClickAddCourse
    \/ ClickClearAll
    \/ RunHomePage
    \/ RunHousingPage
    \/ RunAcademicsPage
    \/ RunStaticPage

SpecPlanner == InitPlanner /\ [][NextPlanner]_vars

\* The two pages over CSV files of every header.
NextHeaders ==
    \/ ClickHomeRow
    \/ SelectQuarter
    \/ RunHomePage
    \/ RunHousingPage
    \/ RunAcademicsPage
    \/ RunStaticPage

SpecHeaders == InitHeaders /\ [][NextHeaders]_vars

\* The card grid over course lists of every length, under the status filter.
NextGrid ==
    \/ ClickHomeRow
    \/ SelectQuarter
    \/ SelectStatusFilter
    \/ RunHomePage
    \/ RunHousingPage
    \/ RunAcademicsPage
    \/ RunStaticPage

SpecGrid == InitGrid /\ [][NextGrid]_vars

----------------------------------------------------------------------------
(* The claims *)

Pages == {"Home", "Housing", "Academics", "Professors", "Aid & Jobs", "Q&A"}

\* C1: the current page is always one of the six page identifiers, each of
\* them has a handler in PAGES, and the page is Home as long as no navigation
\* button has been clicked.
C1_CurrentPageIsAPage ==
    /\ main_nav \in Pages
    /\ Range(NAV_LABELS) = Pages
    /\ \A p \in Pages : p \in DOMAIN PAGES
    /\ (~navigated => main_nav = "Home")

\* navigation has happened and a page other than Home is on the screen
C1_Witness ==
    /\ navigated /\ pc = "idle"
    /\ main_nav = "Aid & Jobs" /\ display.page = "Aid & Jobs"
    /\ sidebar_nav_open = FALSE /\ event.kind = "side_nav"

\* the "Open P" button of page P
OpenButton(P) ==
    CASE P = "Housing"    -> "Open Housing"
      [] P = "Academics"  -> "Open Academics"
      [] P = "Professors" -> "Open Professors"
      [] P = "Aid & Jobs" -> "Open Aid & Jobs"
      [] P = "Q&A"        -> "Open Q&A"
      [] OTHER            -> "none"

NavClickOf(P) ==
    \/ event = [kind |-> "side_nav", arg |-> P]
    \/ event = [kind |-> "home_btn", arg |-> OpenButton(P)]

\* C2: once the run that reads a click on a navigation button for P has
\* ended, the current page is P, and when the runs that follow it have ended
\* the screen holds what P's handler wrote and nothing of another handler.
C2_NavigationShowsTarget ==
    \A P \in Pages :
        NavClickOf(P) =>
            /\ (~fresh => main_nav = P)
            /\ (pc = "idle" => display.page = P /\ PAGES[P] = PAGES[main_nav])

\* Housing reached from the Academics page by the sidebar
C2_Witness ==
    /\ pc = "idle"
    /\ event = [kind |-> "side_nav", arg |-> "Housing"]
    /\ display = [page |-> "Housing", complete |-> TRUE]
    /\ aout = ANone /\ hout.status = "ok"

\* The housing page has run with the widget values hw.
HousingShown == pc = "idle" /\ display.page = "Housing" /\ hout.status = "ok"

BedsPass(r)   == hw.beds = AnyOpt \/ r.beds = hw.beds
StatusPass(r) == hw.status = AnyOpt \/ r.status = hw.status
PetPass(r)    == hw.pet = AnyOpt \/ r.pet_policy = hw.pet
PriceKnown(r) == r.price_num.kind = "num"
OverCeiling(r) == PriceKnown(r) /\ r.price_num.val > hout.price_max * PriceScale
HasDigit(text) == \E i \in 1..Len(text) : text[i] \in Digits

C4_FilterIsConjunction ==
    HousingShown =>
        LET AllPass(r) == ~OverCeiling(r) /\ BedsPass(r) /\ StatusPass(r) /\ PetPass(r)
        IN hout.filtered = SelectSeq(hout.df, AllPass)

\* three selections at work on a table of which a part is left
C4_Witness ==
    /\ HousingShown
    /\ hw.beds # AnyOpt /\ hw.status # AnyOpt /\ hw.pet # AnyOpt
    /\ Len(hout.filtered) = 1 /\ Len(hout.df) = 2
    /\ hout.df[1] # hout.filtered[1]
    /\ hout.df[1].beds = hw.beds /\ hout.df[1].pet_policy = hw.pet

\* C5: with a pet policy selected, a row that the other filters keep is
\* shown exactly when its pet-policy text contains the selected text.
C5_PetPolicyBySubstring ==
    (HousingShown /\ hw.pet # AnyOpt) =>
        \A i \in 1..Len(hout.df) :
            LET r == hout.df[i]
            IN (~OverCeiling(r) /\ BedsPass(r) /\ StatusPass(r)) =>
                (r \in Range(hout.filtered) <=> Contains(r.pet_policy, hw.pet))

\* C6: with no filter touched, the filtered view is the whole table.
C6_UntouchedFiltersShowAll ==
    (HousingShown /\ hw = NoWidgets) => hout.filtered = hout.df

AcademicsShown == pc = "idle" /\ display.page = "Academics" /\ aout.status = "ok"

\* C7: after a run of the housing page or of the Classes-by-quarter tab, the
\* object that the loader returned holds what it held when it was returned.
C7_LoadedTableUnchanged ==
    /\ HousingShown => hout.df = ReadListings(housing_csv)
    /\ AcademicsShown => aout.classes.loader_obj = aout.classes.at_load

\* C8: with an empty query the search tab shows the prompt and no rows, and
\* neither loads nor filters a table.
C8_EmptyQueryPrompts ==
    (AcademicsShown /\ aw.q = <<>>) =>
        aout.search = [kind |-> "prompt", loaded |-> FALSE, rows |-> <<>>]

\* the query emptied again over a database that holds courses
C8_Witness ==
    /\ AcademicsShown /\ aw.q = <<>> /\ event.kind = "widget"
    /\ courses_src.has_db /\ courses_src.courses # <<>>
    /\ aout.search.kind = "prompt"

\* text contains q, letter case ignored; a missing cell contains nothing
ContainsNoCase(cell, q) ==
    cell # NA /\ cell # NONE /\ Contains(Lower(cell), Lower(q))

\* C9: with a query that is not empty, the rows shown are the rows of the
\* course source of which the code, the title or the notes (the description,
\* in the database) contains the query, letter case ignored.
C9_SearchIsSubstringMatch ==
    (AcademicsShown /\ aw.q # <<>>) =>
        LET HitCsv(r) == \/ ContainsNoCase(r.course_code, aw.q)
                         \/ ContainsNoCase(r.title, aw.q)
                         \/ ContainsNoCase(r.notes, aw.q)
            HitDb(r) == \/ ContainsNoCase(r.course_code, aw.q)
                        \/ ContainsNoCase(r.title, aw.q)
                        \/ ContainsNoCase(r.description, aw.q)
        IN aout.search.rows =
              IF courses_src.has_db THEN SelectSeq(courses_src.courses, HitDb)
              ELSE SelectSeq(LoadCoursesDf(courses_src).rows, HitCsv)

IsNumeral(text) == text # <<>> /\ \A i \in 1..Len(text) : text[i] \in Digits

HasPerPerson(card) == \E k \in 1..Len(card) : card[k].pill = "per_person"

\* C10: a card of a listing with a numeric price P and a capacity N > 0 shows
\* the per-person price floor(P / N); any other card shows none.
C10_PerPersonPrice ==
    HousingShown =>
        \A i \in 1..Len(hout.filtered) :
            LET r == hout.filtered[i]
                N == IF IsNumeral(r.max_residents) THEN DigitsVal(r.max_residents) ELSE 0
            IN IF PriceKnown(r) /\ N > 0
               THEN \E k \in 1..Len(hout.cards[i]) :
                        /\ hout.cards[i][k].pill = "per_person"
                        /\ hout.cards[i][k].value = (r.price_num.val \div PriceScale) \div N
               ELSE ~HasPerPerson(hout.cards[i])

\* the colour that the documented mapping gives to a status text
StatusColour(status) ==
    LET t == Lower(Strip(status))
    IN IF t \in {<<"o","p","e","n">>, <<"a","v","a","i","l","a","b","l","e">>} THEN "green"
       ELSE IF t \in {<<"f","u","l","l">>, <<"l","e","a","s","e","d">>} THEN "red"
       ELSE IF t \in {<<"m","i","x","e","d">>, <<"p","r","o","c","e","s","s","i","n","g">>}
       THEN "amber"
       ELSE "grey"

\* the colour of a course card's badge
BadgeColour(badge) ==
    CASE badge = [bg |-> "#ecfdf3", fg |-> "#166534"] -> "green"
      [] badge = [bg |-> "#fef2f2", fg |-> "#991b1b"] -> "red"
      [] badge = [bg |-> "#fffbeb", fg |-> "#92400e"] -> "amber"
      [] badge = [bg |-> "#f3f4f6", fg |-> "#374151"] -> "grey"
      [] OTHER -> "none"

\* the cards of the grid, row after row
RECURSIVE Flatten(_)
Flatten(grid) == IF grid = <<>> THEN <<>> ELSE Head(grid) \o Flatten(Tail(grid))

\* C11: the status badge of every card has the colour of its row's status,
\* letter case and surrounding blanks ignored: green for open or available,
\* red for full or leased, amber for mixed or processing, grey for any other
\* text.  On a listing card the badge is the span of the status line, green
\* when its class is "ok".
C11_BadgeColourByStatus ==
    /\ HousingShown =>
          \A i \in 1..Len(hout.filtered) :
              \A k \in 1..Len(hout.cards[i]) :
                  hout.cards[i][k].pill = "availability" =>
                      (ListingClass(hout.cards[i][k].pill) = "ok"
                          <=> StatusColour(hout.filtered[i].status) = "green")
    /\ (AcademicsShown /\ aout.classes.kind = "cards") =>
          LET cards == Flatten(aout.classes.grid)
          IN \A k \in 1..Len(cards) :
                 BadgeColour(cards[k].card.badge)
                     = StatusColour(AsStr(aout.classes.rows[cards[k].idx + 1].status))

\* the classes tab has got as far as the card grid
GridDrawn ==
    /\ pc = "idle" /\ display.page = "Academics"
    /\ aout.classes.kind \in {"cards", "raised"}
    /\ aout.classes.total > 0

\* C12: for every number n >= 0 of filtered course rows the grid holds the
\* card of each row once, in the table's order, in rows of 3 cards of which
\* only the last may hold fewer, and no index >= n is read, so that the tab
\* does not raise.
C12_GridRendersEachRowOnce ==
    GridDrawn =>
        LET rows  == aout.classes.rows
            grid  == aout.classes.grid
            cards == Flatten(grid)
        IN /\ aout.classes.kind = "cards"
           /\ Len(cards) = Len(rows)
           /\ \A k \in 1..Len(cards) :
                  /\ cards[k].idx = k - 1
                  /\ cards[k].kind = "card"
                  /\ cards[k].card = DisplayCourseCard(rows[k])
           /\ \A g \in 1..Len(grid) :
                  /\ Len(grid[g]) \in 1..3
                  /\ (g < Len(grid) => Len(grid[g]) = 3)

\* five rows left by a narrowed status filter: a full grid row and a last
\* row of two cards
C12_Witness ==
    /\ GridDrawn /\ AcademicsShown
    /\ aw.status_filter = {Open, Full}
    /\ Len(aout.classes.rows) = 5
    /\ Len(aout.classes.grid) = 2
    /\ Len(aout.classes.grid[1]) = 3 /\ Len(aout.classes.grid[2]) = 2
    /\ aout.classes.grid[2][2].idx = 4

\* the reads that a run of a page is about to make and that will fail
HousingReadFails == ~housing_csv.exists \/ ~housing_csv.ok
CsvReadFails     == ~courses_src.has_db /\ courses_src.has_csv /\ ~courses_src.csv_ok
DbLoadFails ==
    /\ courses_src.has_db /\ ~courses_src.db_ok
    /\ CacheKey(aw.major, aw.quarter) \notin DOMAIN db_cache
DbSearchFails    == courses_src.has_db /\ ~courses_src.db_ok /\ aw.q # <<>>

\* C13: a run of the housing or of the academics page completes whatever
\* its reads do, and a read that fails (file missing, CSV that cannot be
\* parsed, database that does not answer) leaves an empty result behind an
\* advisory message.
C13_ReadFailuresAreCaught ==
    [][ /\ Dispatches("housing_page") =>
            /\ display'.complete
            /\ HousingReadFails => (hout'.status = "missing" /\ hout'.cards = <<>>)
        /\ Dispatches("academics_page") =>
            /\ display'.complete
            /\ (CsvReadFails \/ DbLoadFails) =>
                   (aout'.classes.kind = "no_data" /\ aout'.classes.error)
            /\ DbSearchFails => (aout'.search.kind = "no_results" /\ aout'.search.rows = <<>>)
      ]_vars

\* C14: when an earlier load of the courses of a major and a quarter has
\* failed, the next run that needs them reads the database again, and with
\* the database in good health it shows what a first read shows.
C14_FailedLoadIsNotRemembered ==
    [][ ( /\ Dispatches("academics_page")
          /\ courses_src.has_db /\ courses_src.db_ok
          /\ CacheKey(aw.major, aw.quarter) \in DOMAIN db_cache
          /\ db_cache[CacheKey(aw.major, aw.quarter)].error )
        => aout'.classes = ClassesTab(courses_src, aw, NoCache)
      ]_vars

\* the pair that the form sends
NewPair == [Course |-> aw.new_course, Units |-> aw.new_units]

\* a run reads the click on "Add course" / on "Clear all"
ReadsAdd   == Dispatches("academics_page") /\ fresh /\ event.kind = "add_course"
ReadsClear == Dispatches("academics_page") /\ fresh /\ event.kind = "clear_all"

\* C15: the planned-course list is empty at the start of the session; a run
\* that reads "Add course" with a course code that is not empty appends the
\* one pair (course code, units), units in 1..8, and leaves the pairs before
\* it as they are; a run that reads "Clear all" empties the list; no other
\* step, be it navigation, a filter, a query or "Add course" without a code,
\* changes the list.
C15_PlannerAppendsAndClears ==
    /\ planned_courses.list = <<>>
    /\ [][ IF ReadsAdd /\ aw.new_course # <<>>
           THEN /\ planned_courses'.list = Append(planned_courses.list, NewPair)
                /\ NewPair.Units \in 1..8
           ELSE IF ReadsClear
           THEN planned_courses'.list = <<>>
           ELSE planned_courses'.list = planned_courses.list ]_vars

\* a second pair with other units appended behind the first
C15_Witness ==
    /\ pc = "idle" /\ event.kind = "add_course"
    /\ Len(planned_courses.list) = 2
    /\ planned_courses.list[1].Units = 8 /\ planned_courses.list[2].Units = 1
    /\ aout.planner.kind = "table" /\ aout.planner.total_units = 9

\* a cell that holds a value: neither missing nor blank
HasValue(cell) == cell \notin {NA, NONE} /\ Strip(cell) # <<>>

HasFragment(card, kind) == \E k \in 1..Len(card) : card[k].pill = kind

\* the value of a column in a row of the housing file, missing without the column
ListingValue(i, col) ==
    IF col \in housing_csv.cols THEN housing_csv.rows[i][col] ELSE NA

\* C16: a card holds its optional detail block (the notes of a course, the
\* included utilities and the link of a listing) exactly when the row has a
\* value for it; with an empty cell or without the column the card is drawn
\* without the block, and the page does not raise.
C16_DetailBlockIffValue ==
    /\ (pc = "idle" /\ display.page = "Housing" /\ housing_csv.exists /\ housing_csv.ok) =>
          /\ hout.status = "ok"
          /\ Len(hout.filtered) = Len(housing_csv.rows) =>
                \A i \in 1..Len(hout.cards) :
                    /\ HasFragment(hout.cards[i], "utilities")
                           <=> HasValue(ListingValue(i, "included_utilities"))
                    /\ HasFragment(hout.cards[i], "link")
                           <=> HasValue(ListingValue(i, "link"))
    /\ (AcademicsShown /\ aout.classes.kind = "cards") =>
          LET cards == Flatten(aout.classes.grid)
          IN \A k \in 1..Len(cards) :
                 cards[k].card.notes # <<>>
                     <=> HasValue(RowGet(aout.classes.rows[cards[k].idx + 1], "notes"))

\* C17: a courses CSV without one of major, course_code, title, quarter is
\* reported as no data, and so is a housing CSV without its address or its
\* price column; otherwise the loaded table holds every optional column that
\* the file lacks, empty in every row.
C17_MissingColumns ==
    /\ (pc = "idle" /\ display.page = "Academics" /\ ~courses_src.has_db
           /\ courses_src.has_csv) =>
          IF ~({"major", "course_code", "title", "quarter"} \subseteq courses_src.csv_cols)
          THEN aout.classes.kind = "no_data" /\ aout.classes.error
          ELSE \A c \in {"units", "status", "notes"} \ courses_src.csv_cols :
                   \A i \in 1..Len(aout.classes.at_load) : aout.classes.at_load[i][c] = <<>>
    /\ (pc = "idle" /\ display.page = "Housing" /\ housing_csv.exists /\ housing_csv.ok) =>
          IF \/ "address" \notin housing_csv.cols
             \/ {"price", "installment"} \cap housing_csv.cols = {}
          THEN hout.status = "missing" /\ hout.cards = <<>>
          ELSE /\ hout.status = "ok"
               /\ \A c \in {"included_utilities", "link"} \ housing_csv.cols :
                      \A i \in 1..Len(hout.df) : hout.df[i][c] = <<>>

\* C18: with the status multiselect at its default, the number of course
\* cards equals the "Total courses" metric above them, whatever the statuses
\* of the courses of the selected major and quarter are.
C18_CardsEqualTotal ==
    (AcademicsShown /\ aout.classes.kind = "cards" /\ aw.status_filter = {Open, Mixed, Full}) =>
        Len(Flatten(aout.classes.grid)) = aout.classes.stats.total

====
